---- MODULE Spec2Model ----
(***************************************************************************)
(* Model of the job aggregator's core: the shared RateLimiter, the         *)
(* ScraperManager (ScrapeAll / GetAllJobs), the ScraperRegistry and the    *)
(* InMemoryStorage (Store / Search / Clear / GetAnalytics).                *)
(*                                                                         *)
(* Time is a discrete clock `now` counted in ticks; the limiter's interval *)
(* (time.Second in NewScraperManager) is Interval ticks long.              *)
(***************************************************************************)
EXTENDS Integers, Sequences, FiniteSets, TLC

VARIABLES
    now,        \* wall clock, in ticks
    rate,       \* RateLimiter.rate
    tokens,     \* RateLimiter.tokens
    lastTime,   \* RateLimiter.lastTime
    mutex,      \* RateLimiter.mutex: 0 = free, c = held by caller c
    pc,         \* position of each worker goroutine / limiter caller
    ctxAt,      \* per caller: the tick at which its ctx is done
    wakeAt,     \* per caller: the tick at which its time.After fires
    waitRet,    \* per caller: what its last Wait returned ("none" before)
    log,        \* history: one record per Wait call, in the order of locking
    runState,   \* ScrapeAll: "idle", "running", "returned"
    results,    \* ScrapeAll's results slice
    invoked,    \* history, per worker: s.Scrape was called in this run
    fetched,    \* history, per worker: what s.Scrape returned in this run
    late,       \* history, per worker: s.Scrape returned after ctx was done
    configs,    \* ScraperRegistry.configs: key -> [Name, Enabled]
    toggled,    \* history, per key: last successful enable/disable
    atStart,    \* history: `toggled` as it was when the run started
    regRet,     \* history: what the last registry call returned
    regOp,      \* history: the last registry call, configs before it, its result
    listed,     \* a caller holds the map ListScrapers returned
    listSnap,   \* history: what that map held when the caller got it
    jobs,       \* InMemoryStorage.jobs
    firstSeen,  \* history: URL -> first record stored with it since Clear
    lastBatch,  \* history: the argument of the last Store call
    cleared,    \* history: the URLs that were stored when Clear was last called
    searches,   \* history: Search calls (filters, response) since last write
    mergeIn,    \* GetAllJobs: argument
    mergeOut,   \* GetAllJobs: result
    salaries,   \* GetAnalytics: the salaries slice, as collected from the jobs
    salaryRange,\* GetAnalytics: analytics.SalaryRange (<<>> before the call)
    mu,         \* InMemoryStorage.mu: the writer that has announced itself
                \* (0 = none) and the readers inside
    task,       \* per goroutine: the storage call it runs, where it is, and
                \* in `seen` what its Search has read of s.jobs
    commits,    \* history: the values of s.jobs at the times no writer was inside
    calls,      \* history: the number of storage calls started
    handlers,   \* per request goroutine: the registry call it runs, where it
                \* is, and the config it holds in its local variable
    writing,    \* the goroutines inside an assignment to sr.configs
    crashed,    \* the Go runtime has ended the process with a fatal error
    raced,      \* history: an access to sr.configs overlapped a write to it
    issued,     \* history: the registry calls started, in the order of start
    merged      \* GetAllJobs has been called

limVars   == <<now, rate, tokens, lastTime, mutex, pc, ctxAt, wakeAt,
               waitRet, log>>
runVars   == <<runState, results, invoked, fetched, late>>
regVars   == <<configs, toggled, atStart, regRet, regOp, listed, listSnap>>
storeVars == <<jobs, firstSeen, lastBatch, searches, cleared>>
mergeVars == <<mergeIn, mergeOut, merged>>
statVars  == <<salaries, salaryRange>>
rwVars    == <<mu, task, commits, calls>>
raceVars  == <<handlers, writing, crashed, raced, issued>>
sideVars  == <<statVars, rwVars, raceVars>>
vars      == <<limVars, runVars, regVars, storeVars, mergeVars, sideVars>>

-----------------------------------------------------------------------------
(* Bounds of the model *)

MaxTime  == 4   \* the clock of the limiter specification stops here
RunTime  == 3   \* the clock of the orchestration specification stops here
MaxCalls == 4   \* Wait calls in the limiter specification

\* time.Second of NewRateLimiter(5, time.Second), in ticks of 250 ms
Interval == 4

\* the rates limiters are built with (NewRateLimiter's first argument); each
\* divides Interval, so that interval/rate is a whole number of ticks
Rates == {1, 2, 4}

\* a ctx that is not done within the model's horizon (context.Background)
Never == MaxTime + RunTime + 1

Range(s) == {s[i] : i \in DOMAIN s}

-----------------------------------------------------------------------------
(* Job records *)

Job(url, title, company, skills, posted) ==
    [URL |-> url, Title |-> title, Company |-> company, Description |-> "",
     Skills |-> skills, SalaryMin |-> 0, SalaryMax |-> 0,
     PostedDate |-> posted]

\* the job with a Description
Described(job, text) == [job EXCEPT !.Description = text]

\* the job with salary bounds, in thousands; 0 is a bound that is not set
Paid(job, min, max) == [job EXCEPT !.SalaryMin = min, !.SalaryMax = max]

JobA  == Paid(Job("u1", "Go Developer", "Acme", <<"Go", "Docker">>, 3), 60, 100)
\* a lower salary bound alone
JobB  == Paid(Described(Job("u2", "Backend Developer", "Globex",
                            <<"Docker", "Go">>, 2), "Java"), 80, 0)
JobC  == Job("u3", "Nurse",             "Acme",   <<"Care">>,         2)
\* a second posting under JobA's URL
JobA2 == Paid(Job("u1", "Go Developer II", "Initech", <<"Go">>, 1), 100, 120)

JobPool == {JobA, JobB, JobC, JobA2}

-----------------------------------------------------------------------------
(* RateLimiter *)

histVars == <<log>>
otherVars == <<runVars, regVars, storeVars, mergeVars, sideVars>>

\* a refill without the clamp to rl.rate
RefillUnclamped(tok, elapsed) == tok + (elapsed \div Interval) * rate

\* tokensToAdd := int(elapsed / rl.interval * time.Duration(rl.rate)), an
\* integer division followed by the product; then the clamp to rl.rate
Refill(tok, elapsed) ==
    LET tokensToAdd == (elapsed \div Interval) * rate
        t == tok + tokensToAdd
    IN  IF t > rate THEN rate ELSE t

\* a wait that divides the interval by one more than the rate
WaitTimeShort == Interval \div (rate + 1)

\* waitTime := rl.interval / time.Duration(rl.rate)
WaitTime == Interval \div rate

\* rl.tokens = rl.rate - 1 in the time.After branch
AfterWait == rate - 1

CtxDone(c) == now >= ctxAt[c]

\* rl.mutex.Lock() .. the select: runs without blocking once the lock is held
WaitEnter(c) ==
    /\ pc[c] = "start"
    /\ mutex = 0
    /\ LET t == Refill(tokens, now - lastTime)
       IN  /\ lastTime' = now
           /\ IF t > 0
              THEN /\ tokens' = t - 1
                   /\ mutex' = 0
                   /\ pc' = [pc EXCEPT ![c] = "waited"]
                   /\ waitRet' = [waitRet EXCEPT ![c] = "nil"]
                   /\ UNCHANGED wakeAt
              ELSE /\ tokens' = t
                   /\ mutex' = c
                   /\ pc' = [pc EXCEPT ![c] = "sleeping"]
                   /\ wakeAt' = [wakeAt EXCEPT ![c] = now + WaitTime]
                   /\ UNCHANGED waitRet
    /\ UNCHANGED <<now, rate, ctxAt>>

\* a timer branch that returns without the deferred Unlock
WaitTimerKeepsLock(c) ==
    /\ pc[c] = "sleeping"
    /\ now >= wakeAt[c]
    /\ tokens' = AfterWait
    /\ pc' = [pc EXCEPT ![c] = "waited"]
    /\ waitRet' = [waitRet EXCEPT ![c] = "nil"]
    /\ UNCHANGED <<now, rate, lastTime, mutex, ctxAt, wakeAt>>

\* case <-time.After(waitTime): rl.tokens = rl.rate - 1; return nil
WaitTimer(c) ==
    /\ pc[c] = "sleeping"
    /\ now >= wakeAt[c]
    /\ tokens' = AfterWait
    /\ mutex' = 0
    /\ pc' = [pc EXCEPT ![c] = "waited"]
    /\ waitRet' = [waitRet EXCEPT ![c] = "nil"]
    /\ UNCHANGED <<now, rate, lastTime, ctxAt, wakeAt>>

\* a ctx.Done branch that leaves the bucket as the timer branch does
WaitCancelTakes(c) ==
    /\ pc[c] = "sleeping"
    /\ CtxDone(c)
    /\ tokens' = AfterWait
    /\ mutex' = 0
    /\ pc' = [pc EXCEPT ![c] = "waited"]
    /\ waitRet' = [waitRet EXCEPT ![c] = "ctx"]
    /\ UNCHANGED <<now, rate, lastTime, ctxAt, wakeAt>>

\* case <-ctx.Done(): return ctx.Err()
WaitCancel(c) ==
    /\ pc[c] = "sleeping"
    /\ CtxDone(c)
    /\ mutex' = 0
    /\ pc' = [pc EXCEPT ![c] = "waited"]
    /\ waitRet' = [waitRet EXCEPT ![c] = "ctx"]
    /\ UNCHANGED <<now, rate, tokens, lastTime, ctxAt, wakeAt>>

\* the passage of one tick of wall-clock time, up to the horizon `limit`
Tick(limit) ==
    /\ now < limit
    /\ now' = now + 1
    /\ UNCHANGED <<rate, tokens, lastTime, mutex, pc, ctxAt, wakeAt, waitRet>>

-----------------------------------------------------------------------------
(* ScraperManager *)

\* sm.scrapers after NewJobHandler, in AddScraper order.  Of the five scrapers
\* added there, WeWorkRemotely behaves towards ScrapeAll like MockJobSite
\* (never an error) and JobStreet like RemoteOK (an http fetch under ctx).
Scrapers == <<"RemoteOK", "LinkedIn", "MockJobSite">>

Workers == DOMAIN Scrapers

\* the timeouts of the ctx handed to ScrapeAll, in ticks
Timeouts == {1, 3}

Outcome(js, err) == [Jobs |-> js, Error |-> err]

\* no s.Scrape call has returned yet
NoOutcome == Outcome(<<>>, "unset")

\* What s.Scrape(ctx, filters) can return; `done` says whether ctx is done.
\*   RemoteOK     http request under ctx: the ctx error once ctx is done,
\*                else the decoded jobs or a network/status/decode error
\*   LinkedIn     never authenticated: always the authentication error
\*   MockJobSite  sleeps and generates jobs, never looks at ctx, never fails
ScrapeOutcomes(name, done) ==
    CASE name = "RemoteOK" ->
             IF done THEN {Outcome(<<>>, "ctx")}
             ELSE {Outcome(<<JobA, JobB>>, "nil"), Outcome(<<>>, "net")}
      [] name = "LinkedIn" -> {Outcome(<<>>, "auth")}
      [] OTHER -> {Outcome(<<JobC>>, "nil")}

\* make([]models.ScrapingResult, len(sm.scrapers))
ZeroResult == [Jobs |-> <<>>, Source |-> "", Error |-> "nil"]

\* a worker that appends to the first free slot, in completion order
SlotByCompletion(i, res) ==
    CHOOSE k \in DOMAIN res :
        /\ res[k].Source = ""
        /\ \A m \in DOMAIN res : res[m].Source = "" => k <= m

\* results[index]: the slot a worker writes is its launch index
SlotOf(i, res) == i

\* the loop `for i, scraper := range sm.scrapers { wg.Add(1); go func... }`
StartRun(d) ==
    /\ runState = "idle"
    /\ runState' = "running"
    /\ results' = [w \in Workers |-> ZeroResult]
    /\ pc' = [w \in Workers |-> "start"]
    /\ ctxAt' = [w \in Workers |-> now + d]
    /\ atStart' = toggled
    /\ UNCHANGED <<now, rate, tokens, lastTime, mutex, wakeAt, waitRet>>
    /\ UNCHANGED <<histVars, invoked, fetched, late>>
    /\ UNCHANGED <<configs, toggled, regRet, regOp, listed, listSnap>>
    /\ UNCHANGED <<storeVars, mergeVars, sideVars>>

\* sm.rateLimiter.Wait(ctx) has returned (its error is dropped);
\* the worker calls s.Scrape(ctx, filters)
Dispatch(i) ==
    /\ runState = "running"
    /\ pc[i] = "waited"
    /\ pc' = [pc EXCEPT ![i] = "scraping"]
    /\ invoked' = [invoked EXCEPT ![i] = TRUE]
    /\ UNCHANGED <<now, rate, tokens, lastTime, mutex, ctxAt, wakeAt, waitRet>>
    /\ UNCHANGED <<histVars, runState, results, fetched, late>>
    /\ UNCHANGED <<regVars, storeVars, mergeVars, sideVars>>

\* s.Scrape returns; results[index] = ScrapingResult{jobs, s.Name(), err}
ScrapeReturn(i, out) ==
    /\ runState = "running"
    /\ pc[i] = "scraping"
    /\ out \in ScrapeOutcomes(Scrapers[i], CtxDone(i))
    /\ results' = [results EXCEPT ![SlotOf(i, results)] =
                       [Jobs |-> out.Jobs, Source |-> Scrapers[i],
                        Error |-> out.Error]]
    /\ fetched' = [fetched EXCEPT ![i] = out]
    /\ late' = [late EXCEPT ![i] = now > ctxAt[i]]
    /\ pc' = [pc EXCEPT ![i] = "done"]
    /\ UNCHANGED <<now, rate, tokens, lastTime, mutex, ctxAt, wakeAt, waitRet>>
    /\ UNCHANGED <<histVars, runState, invoked>>
    /\ UNCHANGED <<regVars, storeVars, mergeVars, sideVars>>

\* wg.Wait() returns once every worker has called wg.Done(); return results
Join ==
    /\ runState = "running"
    /\ \A w \in Workers : pc[w] = "done"
    /\ runState' = "returned"
    /\ UNCHANGED <<limVars, results, invoked, fetched, late>>
    /\ UNCHANGED <<regVars, storeVars, mergeVars, sideVars>>

RECURSIVE MergeUntilError(_, _, _)
\* a loop over the results that ends at the first failed one
MergeUntilError(res, k, acc) ==
    IF k > Len(res) \/ res[k].Error # "nil" THEN acc
    ELSE MergeUntilError(res, k + 1, acc \o res[k].Jobs)

GetAllJobsUntilError(res) == MergeUntilError(res, 1, <<>>)

RECURSIVE MergeDedup(_, _, _, _)
\* a merge that drops a record whose URL it has already appended
MergeDedup(res, k, m, acc) ==
    IF k > Len(res) THEN acc
    ELSE IF res[k].Error # "nil" \/ m > Len(res[k].Jobs)
         THEN MergeDedup(res, k + 1, 1, acc)
         ELSE IF \E a \in DOMAIN acc : acc[a].URL = res[k].Jobs[m].URL
              THEN MergeDedup(res, k, m + 1, acc)
              ELSE MergeDedup(res, k, m + 1, Append(acc, res[k].Jobs[m]))

GetAllJobsDedup(res) == MergeDedup(res, 1, 1, <<>>)

RECURSIVE MergeFrom(_, _, _)
\* for _, result := range results { if result.Error == nil { append... } }
MergeFrom(res, k, acc) ==
    IF k > Len(res) THEN acc
    ELSE IF res[k].Error = "nil"
         THEN MergeFrom(res, k + 1, acc \o res[k].Jobs)
         ELSE MergeFrom(res, k + 1, acc)

\* GetAllJobs(results)
GetAllJobs(res) == MergeFrom(res, 1, <<>>)

-----------------------------------------------------------------------------
(* ScraperRegistry *)

Config(name, enabled) == [Name |-> name, Enabled |-> enabled]

\* loadDefaultConfigs
DefaultConfigs ==
    [k \in {"remoteok", "weworkremotely", "linkedin", "jobstreet", "indeed"} |->
        CASE k = "remoteok"       -> Config("RemoteOK", TRUE)
          [] k = "weworkremotely" -> Config("WeWorkRemotely", TRUE)
          [] k = "linkedin"       -> Config("LinkedIn", FALSE)
          [] k = "jobstreet"      -> Config("JobStreet", FALSE)
          [] OTHER                -> Config("Indeed", TRUE)]

\* the names the enable/disable requests of the model carry
RequestNames == {"remoteok", "nosuch"}

\* a registry call: its name, its argument, sr.configs before it, its result
RegCall(op, name, out) ==
    [op |-> op, name |-> name, before |-> configs, out |-> out]

\* no registry call has been made
NoCall == [op |-> "none", name |-> "", before |-> DefaultConfigs, out |-> <<>>]

\* an enable/disable that creates the entry it does not find
SetEnabledUpsert(name, flag) ==
    IF name \notin DOMAIN configs
    THEN /\ configs' = (name :> Config("", flag)) @@ configs
         /\ regRet' = "nil"
         /\ UNCHANGED toggled
    ELSE /\ configs' = [configs EXCEPT ![name].Enabled = flag]
         /\ toggled' = [toggled EXCEPT ![name] =
                            IF flag THEN "enabled" ELSE "disabled"]
         /\ regRet' = "nil"

\* EnableScraper / DisableScraper: not found, or the flag is set
SetEnabled(name, flag) ==
    IF name \notin DOMAIN configs
    THEN /\ regRet' = "notfound"
         /\ UNCHANGED <<configs, toggled>>
    ELSE /\ configs' = [configs EXCEPT ![name].Enabled = flag]
         /\ toggled' = [toggled EXCEPT ![name] =
                            IF flag THEN "enabled" ELSE "disabled"]
         /\ regRet' = "nil"

EnableScraper(name) ==
    /\ SetEnabled(name, TRUE)
    /\ UNCHANGED <<regOp, listed, listSnap>>
    /\ UNCHANGED <<limVars, runVars, atStart, storeVars, mergeVars, sideVars>>

DisableScraper(name) ==
    /\ SetEnabled(name, FALSE)
    /\ UNCHANGED <<regOp, listed, listSnap>>
    /\ UNCHANGED <<limVars, runVars, atStart, storeVars, mergeVars, sideVars>>

-----------------------------------------------------------------------------
(* The orchestration specification: NewJobHandler's manager and SetupRoutes' *)
(* registry, one ScrapeAll call, enable/disable requests, the clock          *)

InitLimiter ==
    /\ now = 0
    /\ rate \in Rates
    /\ tokens = rate
    /\ lastTime = 0
    /\ mutex = 0
    /\ pc = [w \in Workers |-> "idle"]
    /\ ctxAt = [w \in Workers |-> Never]
    /\ wakeAt = [w \in Workers |-> 0]
    /\ waitRet = [w \in Workers |-> "none"]
    /\ log = <<>>

InitRun ==
    /\ runState = "idle"
    /\ results = <<>>
    /\ invoked = [w \in Workers |-> FALSE]
    /\ fetched = [w \in Workers |-> NoOutcome]
    /\ late = [w \in Workers |-> FALSE]

InitReg ==
    /\ configs = DefaultConfigs
    /\ toggled = [k \in DOMAIN DefaultConfigs |-> "none"]
    /\ atStart = [k \in DOMAIN DefaultConfigs |-> "none"]
    /\ regRet = "none"
    /\ regOp = NoCall
    /\ listed = FALSE
    /\ listSnap = <<>>

InitStore ==
    /\ jobs = <<>>
    /\ firstSeen = <<>>
    /\ lastBatch = <<>>
    /\ searches = <<>>
    /\ cleared = {}

InitMerge ==
    /\ mergeIn = <<>>
    /\ mergeOut = <<>>
    /\ merged = FALSE

InitStat ==
    /\ salaries = <<>>
    /\ salaryRange = <<>>

\* no goroutine is in a storage call
NoTask == [op |-> "none", pc |-> "idle", batch |-> <<>>, urls |-> {},
           seen |-> <<>>]

Goroutines == 1..3

InitRW ==
    /\ mu = [writer |-> 0, readers |-> {}]
    /\ task = [g \in Goroutines |-> NoTask]
    /\ commits = {<<>>}
    /\ calls = 0

\* no request is in a registry call
NoRequest == [op |-> "none", name |-> "", pc |-> "idle",
              config |-> [Name |-> "", Enabled |-> FALSE]]

InitRace ==
    /\ handlers = [g \in Goroutines |-> NoRequest]
    /\ writing = {}
    /\ crashed = FALSE
    /\ raced = FALSE
    /\ issued = <<>>

InitSide == InitStat /\ InitRW /\ InitRace

Init == InitLimiter /\ InitRun /\ InitReg /\ InitStore /\ InitMerge /\ InitSide

\* the state after NewJobHandler for the specifications in which no Wait is
\* called: one limiter
InitQuiet == Init /\ rate = 4

WorkerWaitEnter(i) == WaitEnter(i) /\ UNCHANGED <<histVars, otherVars>>

WorkerWaitTimer(i) == WaitTimer(i) /\ UNCHANGED <<histVars, otherVars>>

WorkerWaitCancel(i) == WaitCancel(i) /\ UNCHANGED <<histVars, otherVars>>

RunTick == Tick(RunTime) /\ UNCHANGED <<histVars, otherVars>>

Next ==
    \/ \E d \in Timeouts : StartRun(d)
    \/ \E i \in Workers : WorkerWaitEnter(i)
    \/ \E i \in Workers : WorkerWaitTimer(i)
    \/ \E i \in Workers : WorkerWaitCancel(i)
    \/ \E i \in Workers : Dispatch(i)
    \/ \E i \in Workers : \E out \in ScrapeOutcomes(Scrapers[i], CtxDone(i)) :
           ScrapeReturn(i, out)
    \/ Join
    \/ RunTick
    \/ \E n \in RequestNames : EnableScraper(n)
    \/ \E n \in RequestNames : DisableScraper(n)

Spec == Init /\ [][Next]_vars

\* The run specification: one ScrapeAll call on its own, on the limiter as
\* NewScraperManager built it (the bucket is full, so that the time before
\* the call makes no difference and the call is made at tick 0), every
\* s.Scrape call returning.  The clock runs during the call, and past RunTime
\* for as long as a worker sleeps in Wait for a timer that has not fired; the
\* scheduler runs every goroutine that can take a step, sync.Mutex hands the
\* lock to each waiter in the end, timers fire and every fetch returns.
LiveHorizon ==
    IF \E w \in Workers : pc[w] = "sleeping" /\ now < wakeAt[w] THEN now + 1
    ELSE IF runState = "running" THEN RunTime
    ELSE now

LiveTick == Tick(LiveHorizon) /\ UNCHANGED <<histVars, otherVars>>

NextLive ==
    \/ \E d \in Timeouts : StartRun(d)
    \/ \E i \in Workers : WorkerWaitEnter(i)
    \/ \E i \in Workers : WorkerWaitTimer(i)
    \/ \E i \in Workers : WorkerWaitCancel(i)
    \/ \E i \in Workers : Dispatch(i)
    \/ \E i \in Workers : \E out \in ScrapeOutcomes(Scrapers[i], CtxDone(i)) :
           ScrapeReturn(i, out)
    \/ Join
    \/ LiveTick

Fairness ==
    /\ WF_vars(LiveTick)
    /\ WF_vars(Join)
    /\ \A i \in Workers :
           /\ WF_vars(WorkerWaitEnter(i))
           /\ WF_vars(WorkerWaitTimer(i))
           /\ WF_vars(WorkerWaitCancel(i))
           /\ WF_vars(Dispatch(i))
           /\ WF_vars(\E out \in ScrapeOutcomes(Scrapers[i], CtxDone(i)) :
                          ScrapeReturn(i, out))

SpecLive == Init /\ [][NextLive]_vars /\ Fairness

-----------------------------------------------------------------------------
(* The limiter specification: a fresh NewRateLimiter(rate, Interval) and     *)
(* callers that call Wait again and again, each call under its own ctx       *)

\* the ticks at which the ctx of a Wait call can be done: in the middle of
\* the first interval, or not at all
Deadlines == {Interval \div 2, Never}

\* a caller calls rl.Wait(ctx) and reaches rl.mutex.Lock()
Call(c, at) ==
    /\ pc[c] \in {"idle", "waited"}
    /\ Len(log) + Cardinality({w \in Workers : pc[w] = "start"}) < MaxCalls
    /\ pc' = [pc EXCEPT ![c] = "start"]
    /\ ctxAt' = [ctxAt EXCEPT ![c] = at]
    /\ waitRet' = [waitRet EXCEPT ![c] = "none"]
    /\ UNCHANGED <<now, rate, tokens, lastTime, mutex, wakeAt, log>>
    /\ UNCHANGED otherVars

\* The history of the Wait calls: rl.tokens as the call found it when it got
\* the lock, whether the bucket was empty after the refill, what the call
\* returned, and for how long it slept.  A sleeping call holds the mutex, so
\* it is the last one of the log and it got the lock at lastTime.
CallerWaitEnter(c) ==
    /\ WaitEnter(c)
    /\ log' = Append(log,
                [found |-> tokens,
                 empty |-> pc'[c] = "sleeping",
                 ret   |-> IF pc'[c] = "waited" THEN "nil" ELSE "pending",
                 slept |-> 0])
    /\ UNCHANGED otherVars

CallerWaitTimer(c) ==
    /\ WaitTimer(c)
    /\ log' = [log EXCEPT ![Len(log)].ret = "nil",
                          ![Len(log)].slept = now - lastTime]
    /\ UNCHANGED otherVars

CallerWaitCancel(c) ==
    /\ WaitCancel(c)
    /\ log' = [log EXCEPT ![Len(log)].ret = "ctx",
                          ![Len(log)].slept = now - lastTime]
    /\ UNCHANGED otherVars

\* the number of Wait calls that have returned nil
Granted == Cardinality({k \in DOMAIN log : log[k].ret = "nil"})

LimiterTick == Tick(MaxTime) /\ UNCHANGED <<histVars, otherVars>>

NextLimiter ==
    \/ \E c \in Workers : \E at \in Deadlines : Call(c, at)
    \/ \E c \in Workers : CallerWaitEnter(c)
    \/ \E c \in Workers : CallerWaitTimer(c)
    \/ \E c \in Workers : CallerWaitCancel(c)
    \/ LimiterTick

SpecLimiter == Init /\ [][NextLimiter]_vars

-----------------------------------------------------------------------------
(* The construction specification: NewRateLimiter called with any rate,      *)
(* followed by Wait calls on the limiter it returned                         *)

\* the rates NewRateLimiter is called with: it takes any int
RateArgs == {0} \cup Rates

\* NewRateLimiter(rate, interval): no argument is rejected, the limiter is
\* returned with tokens = rate
NewRateLimiter ==
    /\ now = 0
    /\ rate \in RateArgs
    /\ tokens = rate
    /\ lastTime = 0
    /\ mutex = 0
    /\ pc = [w \in Workers |-> "idle"]
    /\ ctxAt = [w \in Workers |-> Never]
    /\ wakeAt = [w \in Workers |-> 0]
    /\ waitRet = [w \in Workers |-> "none"]
    /\ log = <<>>

InitNew ==
    NewRateLimiter /\ InitRun /\ InitReg /\ InitStore /\ InitMerge /\ InitSide

\* a Wait call has ended in a run-time panic
Crashed == \E c \in Workers : pc[c] = "panicked"

\* Wait on a limiter of rate 0: the refill adds elapsed/interval * 0 tokens to
\* the 0 the bucket holds, rl.tokens > 0 fails, and
\* rl.interval / time.Duration(rl.rate) is an integer division by zero: the
\* call panics (the deferred Unlock runs)
WaitPanic(c) ==
    /\ rate = 0
    /\ pc[c] = "start"
    /\ mutex = 0
    /\ lastTime' = now
    /\ pc' = [pc EXCEPT ![c] = "panicked"]
    /\ UNCHANGED <<now, rate, tokens, mutex, ctxAt, wakeAt, waitRet>>
    /\ UNCHANGED <<histVars, otherVars>>

NewCall(c, at) == ~Crashed /\ Call(c, at)

NewWaitEnter(c) == rate > 0 /\ CallerWaitEnter(c)

NewTick == ~Crashed /\ LimiterTick

NextNew ==
    \/ \E c \in Workers : \E at \in Deadlines : NewCall(c, at)
    \/ \E c \in Workers : NewWaitEnter(c)
    \/ \E c \in Workers : CallerWaitTimer(c)
    \/ \E c \in Workers : CallerWaitCancel(c)
    \/ \E c \in Workers : WaitPanic(c)
    \/ NewTick

SpecNew == InitNew /\ [][NextNew]_vars

-----------------------------------------------------------------------------
(* InMemoryStorage *)

MaxBatch    == 2   \* longest batch handed to Store
MaxSearches == 2   \* Search calls remembered between two writes
IntBits     == 4   \* bits of an int (64 in the build), kept small

\* the results getTopCounts / getTopCompanies are cut to (GetAnalytics)
TopLimit == 10

RECURSIVE StoreLoopNoMark(_, _, _)
\* a loop that does not add the URLs it inserts to existingURLs
StoreLoopNoMark(js, urls, batch) ==
    IF batch = <<>> THEN js
    ELSE IF Head(batch).URL \notin urls
         THEN StoreLoopNoMark(Append(js, Head(batch)), urls, Tail(batch))
         ELSE StoreLoopNoMark(js, urls, Tail(batch))

RECURSIVE StoreLoop(_, _, _)
\* for _, job := range jobs { if !existingURLs[job.URL] { append; mark } }
StoreLoop(js, urls, batch) ==
    IF batch = <<>> THEN js
    ELSE IF Head(batch).URL \notin urls
         THEN StoreLoop(Append(js, Head(batch)), urls \cup {Head(batch).URL},
                        Tail(batch))
         ELSE StoreLoop(js, urls, Tail(batch))

\* a URL index that outlives Clear
ExistingURLsSticky(js) == {js[i].URL : i \in DOMAIN js} \cup cleared

\* existingURLs is rebuilt from s.jobs on every call
ExistingURLs(js) == {js[i].URL : i \in DOMAIN js}

RECURSIVE FirstWins(_, _)
\* history: the first record seen under each URL
FirstWins(fs, batch) ==
    IF batch = <<>> THEN fs
    ELSE FirstWins(IF Head(batch).URL \in DOMAIN fs THEN fs
                   ELSE fs @@ (Head(batch).URL :> Head(batch)),
                   Tail(batch))

Batches == UNION {[1..n -> JobPool] : n \in 1..MaxBatch}

\* Store(jobs)
Store(batch) ==
    /\ jobs' = StoreLoop(jobs, ExistingURLs(jobs), batch)
    /\ searches' = <<>>
    /\ UNCHANGED <<limVars, runVars, regVars, mergeVars, sideVars>>

\* Clear()
Clear ==
    /\ jobs' = <<>>
    /\ searches' = <<>>
    /\ UNCHANGED <<limVars, runVars, regVars, mergeVars, sideVars>>

\* the strings of the model as sequences of their characters
Chars(w) ==
    CASE w = "" -> <<>>
      [] w = "Go Developer" -> <<"G", "o", " ", "D", "e", "v", "e", "l", "o", "p", "e", "r">>
      [] w = "Backend Developer" -> <<"B", "a", "c", "k", "e", "n", "d", " ", "D", "e", "v", "e", "l", "o", "p", "e", "r">>
      [] w = "Nurse" -> <<"N", "u", "r", "s", "e">>
      [] w = "Go Developer II" -> <<"G", "o", " ", "D", "e", "v", "e", "l", "o", "p", "e", "r", " ", "I", "I">>
      [] w = "Java" -> <<"J", "a", "v", "a">>
      [] w = "Go" -> <<"G", "o">>
      [] w = "Docker" -> <<"D", "o", "c", "k", "e", "r">>
      [] w = "Care" -> <<"C", "a", "r", "e">>
      [] w = "go" -> <<"g", "o">>
      [] w = "GO" -> <<"G", "O">>
      [] w = "dock" -> <<"d", "o", "c", "k">>
      [] w = "java" -> <<"j", "a", "v", "a">>
      [] w = "rust" -> <<"r", "u", "s", "t">>
      [] w = "urs" -> <<"u", "r", "s">>

\* unicode.ToLower on the upper-case letters of the model's strings
LowerChar(c) ==
    CASE c = "B" -> "b"
      [] c = "C" -> "c"
      [] c = "D" -> "d"
      [] c = "G" -> "g"
      [] c = "I" -> "i"
      [] c = "J" -> "j"
      [] c = "N" -> "n"
      [] c = "O" -> "o"
      [] OTHER -> c

\* strings.ToLower
ToLower(text) == [i \in DOMAIN text |-> LowerChar(text[i])]

\* strings.ToLower of a string of the model
Lower(w) == ToLower(Chars(w))

\* strings.Contains
Contains(text, sub) ==
    \E at \in 0..(Len(text) - Len(sub)) :
        SubSeq(text, at + 1, at + Len(sub)) = sub

RECURSIVE StringsJoin(_)
\* strings.Join(words, " ")
StringsJoin(ws) ==
    IF ws = <<>> THEN <<>>
    ELSE IF Len(ws) = 1 THEN Chars(ws[1])
         ELSE Chars(Head(ws)) \o <<" ">> \o StringsJoin(Tail(ws))

\* Go's int in the model: two's complement of IntBits bits
MinInt == -(2 ^ (IntBits - 1))

MaxInt == 2 ^ (IntBits - 1) - 1

\* the value an int holds after an addition: it wraps around
Wrap(n) == ((n - MinInt) % (2 ^ IntBits)) + MinInt

Filters(skills, limit, offset) ==
    [Skills |-> skills, Keywords |-> <<>>, MinSalary |-> 0, MaxSalary |-> 0,
     Limit |-> limit, Offset |-> offset]

\* criteria with keywords alone
KeywordFilters(keywords) ==
    [Filters(<<>>, 0, 0) EXCEPT !.Keywords = keywords]

\* criteria with salary bounds alone, in thousands
SalaryFilters(min, max) ==
    [Filters(<<>>, 0, 0) EXCEPT !.MinSalary = min, !.MaxSalary = max]

\* the search criteria of the model; their other fields are unset
FilterSet ==
    { Filters(<<>>, 0, 0),
      Filters(<<"go">>, 1, 0),
      Filters(<<"Docker", "GO">>, 0, 1) }

\* the criteria of the query specification: those above, a skill that is
\* only part of a stored one, a middle page, an offset beyond every total, a
\* negative offset, the largest offset, keywords, and salary bounds
QuerySet ==
    FilterSet \cup
    { Filters(<<"dock">>, 0, 0),
      Filters(<<>>, 1, 1),
      Filters(<<>>, 2, Cardinality(JobPool)),
      Filters(<<>>, 0, -1),
      Filters(<<>>, 1, MaxInt),
      KeywordFilters(<<"rust", "java">>),
      KeywordFilters(<<"urs", "dock">>),
      SalaryFilters(70, 0),
      SalaryFilters(0, 110),
      SalaryFilters(70, 130) }

\* a skills filter that one requested skill satisfies
matchesFiltersAnySkill(job, filters) ==
    LET jobText == ToLower(Chars(job.Title) \o <<" ">> \o Chars(job.Description)
                           \o <<" ">> \o StringsJoin(job.Skills))
        jobSkills == {Lower(job.Skills[i]) : i \in DOMAIN job.Skills}
    IN  /\ Len(filters.Keywords) > 0 =>
               \E k \in DOMAIN filters.Keywords :
                   Contains(jobText, Lower(filters.Keywords[k]))
        /\ ~(filters.MinSalary > 0 /\
                 (job.SalaryMin = 0 \/ job.SalaryMin < filters.MinSalary))
        /\ ~(filters.MaxSalary > 0 /\
                 (job.SalaryMax = 0 \/ job.SalaryMax > filters.MaxSalary))
        /\ Len(filters.Skills) > 0 =>
               \E r \in DOMAIN filters.Skills :
                   Lower(filters.Skills[r]) \in jobSkills

\* salary filters that a job without the salary bound passes
matchesFiltersMissingPasses(job, filters) ==
    LET jobText == ToLower(Chars(job.Title) \o <<" ">> \o Chars(job.Description)
                           \o <<" ">> \o StringsJoin(job.Skills))
        jobSkills == {Lower(job.Skills[i]) : i \in DOMAIN job.Skills}
    IN  /\ Len(filters.Keywords) > 0 =>
               \E k \in DOMAIN filters.Keywords :
                   Contains(jobText, Lower(filters.Keywords[k]))
        /\ ~(filters.MinSalary > 0 /\ job.SalaryMin # 0
                 /\ job.SalaryMin < filters.MinSalary)
        /\ ~(filters.MaxSalary > 0 /\ job.SalaryMax # 0
                 /\ job.SalaryMax > filters.MaxSalary)
        /\ \A r \in DOMAIN filters.Skills :
               Lower(filters.Skills[r]) \in jobSkills

\* matchesFilters: the keywords filter (one keyword contained in the lower-
\* cased title, description and skills joined by blanks), the salary filters
\* (a requested bound excludes the job that lacks or misses it) and the
\* skills filter (every requested skill, compared in lower case); the
\* filters that are unset let every job pass
matchesFilters(job, filters) ==
    LET jobText == ToLower(Chars(job.Title) \o <<" ">> \o Chars(job.Description)
                           \o <<" ">> \o StringsJoin(job.Skills))
        jobSkills == {Lower(job.Skills[i]) : i \in DOMAIN job.Skills}
    IN  /\ Len(filters.Keywords) > 0 =>
               \E k \in DOMAIN filters.Keywords :
                   Contains(jobText, Lower(filters.Keywords[k]))
        /\ ~(filters.MinSalary > 0 /\
                 (job.SalaryMin = 0 \/ job.SalaryMin < filters.MinSalary))
        /\ ~(filters.MaxSalary > 0 /\
                 (job.SalaryMax = 0 \/ job.SalaryMax > filters.MaxSalary))
        /\ \A r \in DOMAIN filters.Skills :
               Lower(filters.Skills[r]) \in jobSkills

RECURSIVE InsertByDate(_, _)
\* insertion of job j behind every job that is not older than it
InsertByDate(sorted, j) ==
    IF sorted = <<>> THEN <<j>>
    ELSE IF j.PostedDate > Head(sorted).PostedDate
         THEN <<j>> \o sorted
         ELSE <<Head(sorted)>> \o InsertByDate(Tail(sorted), j)

RECURSIVE SortByDate(_)
\* sort.Slice(filteredJobs, PostedDate.After): newest first; slices of up to
\* 12 elements are sorted by insertion, equal dates keep their order
SortByDate(js) ==
    IF js = <<>> THEN <<>>
    ELSE InsertByDate(SortByDate(SubSeq(js, 1, Len(js) - 1)), js[Len(js)])

\* start and end as Search computes them for a filtered list of `total` jobs
PageBounds(total, filters) ==
    LET start0 == filters.Offset
        end0 == IF filters.Limit = 0 THEN total
                ELSE Wrap(start0 + filters.Limit)
    IN  [start |-> IF start0 > total THEN total ELSE start0,
         end   |-> IF end0 > total THEN total ELSE end0]

\* the slice expression filteredJobs[start:end] is in range; it panics
\* otherwise (end never exceeds len(filteredJobs) here)
SliceOK(b) == 0 <= b.start /\ b.start <= b.end

\* filteredJobs[start:end] with the pagination of Search
Page(sorted, filters) ==
    LET b == PageBounds(Len(sorted), filters)
    IN  SubSeq(sorted, b.start + 1, b.end)

\* Search did not return: the slice expression panicked
NoResponse == [Jobs |-> <<>>, Total |-> 0, Analytics |-> <<>>, Filters |-> <<>>]

CountIn(seq, x) == Cardinality({i \in DOMAIN seq : seq[i] = x})

RECURSIVE SumOver(_, _)
SumOver(f, S) ==
    IF S = {} THEN 0
    ELSE LET x == CHOOSE y \in S : TRUE IN f[x] + SumOver(f, S \ {x})

\* skillCounts[skill]++ for every skill of every job
SkillCounts(js) ==
    LET all == UNION {Range(js[i].Skills) : i \in DOMAIN js}
    IN  [sk \in all |->
            SumOver([i \in DOMAIN js |-> CountIn(js[i].Skills, sk)], DOMAIN js)]

\* companyCounts[job.Company]++ for every job with a company
CompanyCounts(js) ==
    LET all == {js[i].Company : i \in DOMAIN js} \ {""}
    IN  [c \in all |-> Cardinality({i \in DOMAIN js : js[i].Company = c})]

Take(seq, n) == SubSeq(seq, 1, IF Len(seq) < n THEN Len(seq) ELSE n)

\* The orders `for key, count := range counts` followed by sort.Slice on the
\* count can leave the keys in: Go iterates a map in an unspecified order and
\* sort.Slice compares the counts alone, so every order with non-increasing
\* counts can come out.
RankedOrders(counts) ==
    LET n == Cardinality(DOMAIN counts)
    IN  {p \in [1..n -> DOMAIN counts] :
            /\ \A a, b \in 1..n : p[a] = p[b] => a = b
            /\ \A a, b \in 1..n : a < b => counts[p[a]] >= counts[p[b]]}

\* getTopCounts(counts, limit)
getTopCounts(counts, limit) ==
    {[i \in DOMAIN Take(p, limit) |-> [Skill |-> p[i], Count |-> counts[p[i]]]] :
        p \in RankedOrders(counts)}

\* getTopCompanies(counts, limit)
getTopCompanies(counts, limit) ==
    {[i \in DOMAIN Take(p, limit) |-> [Company |-> p[i], Count |-> counts[p[i]]]] :
        p \in RankedOrders(counts)}

\* GetAnalytics(jobs): the analytics it can return (job count and rankings)
GetAnalytics(js) ==
    IF Len(js) = 0
    THEN {[TotalJobs |-> 0, TopSkills |-> <<>>, TopCompanies |-> <<>>]}
    ELSE {[TotalJobs |-> Len(js), TopSkills |-> ts, TopCompanies |-> tc] :
             ts \in getTopCounts(SkillCounts(js), TopLimit),
             tc \in getTopCompanies(CompanyCounts(js), TopLimit)}

\* the jobs of s.jobs that pass the filters, in the order of s.jobs
FilteredUnsorted(filters) ==
    SelectSeq(jobs, LAMBDA j : matchesFilters(j, filters))

\* the jobs of s.jobs that pass the filters, newest first
Filtered(filters) ==
    SortByDate(SelectSeq(jobs, LAMBDA j : matchesFilters(j, filters)))

\* Search(filters): the response, or the panic of the slice expression
Search(filters) ==
    /\ Len(searches) < MaxSearches
    /\ IF SliceOK(PageBounds(Len(Filtered(filters)), filters))
       THEN \E analytics \in GetAnalytics(Filtered(filters)) :
                searches' = Append(searches,
                    [filters |-> filters,
                     panicked |-> FALSE,
                     resp |-> [Jobs |-> Page(Filtered(filters), filters),
                               Total |-> Len(Filtered(filters)),
                               Analytics |-> analytics,
                               Filters |-> filters]])
       ELSE searches' = Append(searches,
                [filters |-> filters, panicked |-> TRUE, resp |-> NoResponse])
    /\ UNCHANGED <<jobs, firstSeen, lastBatch, cleared>>
    /\ UNCHANGED <<limVars, runVars, regVars, mergeVars, sideVars>>

SearchStore(b) == Store(b) /\ UNCHANGED <<firstSeen, lastBatch, cleared>>

SearchClear == Clear /\ UNCHANGED <<firstSeen, lastBatch, cleared>>

\* The search specification: Store, Clear and Search calls on one storage
NextSearch ==
    \/ \E b \in Batches : SearchStore(b)
    \/ SearchClear
    \/ \E f \in FilterSet : Search(f)

SpecSearch == InitQuiet /\ [][NextSearch]_vars

\* The query specification: Store and Clear calls and, between two of them,
\* one Search call on one storage
Query(filters) == searches = <<>> /\ Search(filters)

NextQuery ==
    \/ \E b \in Batches : SearchStore(b)
    \/ SearchClear
    \/ \E f \in QuerySet : Query(f)

SpecQuery == InitQuiet /\ [][NextQuery]_vars

\* The store specification: Store and Clear calls on one storage, with the
\* history of what was handed to Store
LoggedStore(b) ==
    /\ Store(b)
    /\ firstSeen' = FirstWins(firstSeen, b)
    /\ lastBatch' = b
    /\ UNCHANGED cleared

LoggedClear ==
    /\ Clear
    /\ firstSeen' = <<>>
    /\ lastBatch' = <<>>
    /\ cleared' = ExistingURLs(jobs)

NextStore ==
    \/ \E b \in Batches : LoggedStore(b)
    \/ LoggedClear

SpecStore == InitQuiet /\ [][NextStore]_vars

-----------------------------------------------------------------------------
(* The merge specification: GetAllJobs applied to a results slice            *)

MaxResults == 3   \* longest results slice handed to GetAllJobs

Result(js, src, err) == [Jobs |-> js, Source |-> src, Error |-> err]

\* the ScrapingResults the slices are made of: successes with and without
\* records (two of them sharing the URL u1), a failure without records and
\* one that carries records
ResultPool ==
    { Result(<<JobA, JobB>>, "RemoteOK", "nil"),
      Result(<<JobA2>>, "MockJobSite", "nil"),
      Result(<<>>, "WeWorkRemotely", "nil"),
      Result(<<>>, "LinkedIn", "auth"),
      Result(<<JobC>>, "JobStreet", "net") }

ResultSlices == UNION {[1..n -> ResultPool] : n \in 0..MaxResults}

InitMergeInputs ==
    /\ mergeIn \in ResultSlices
    /\ mergeOut = <<>>
    /\ merged = FALSE

\* allJobs := sm.GetAllJobs(results)
Merge ==
    /\ ~merged
    /\ mergeOut' = GetAllJobs(mergeIn)
    /\ merged' = TRUE
    /\ UNCHANGED <<mergeIn, limVars, runVars, regVars, storeVars, sideVars>>

InitMergeSpec ==
    /\ InitLimiter /\ rate = 4
    /\ InitRun /\ InitReg /\ InitStore /\ InitMergeInputs /\ InitSide

NextMerge == Merge

SpecMerge == InitMergeSpec /\ [][NextMerge]_vars

-----------------------------------------------------------------------------
(* The statistics specification: the salary statistics of GetAnalytics       *)
(* applied to a salaries slice                                               *)

MaxSample == 4   \* longest salaries slice

\* a float64 is kept as an exact multiple of 1/Unit: the salaries are whole
\* numbers or halves (averages of two ints), the weights multiples of 1/4
Unit == 8

\* float64(x) of an int
Float(x) == x * Unit

\* int(f) of a float64 f >= 0
Trunc(f) == f \div Unit

\* the product of two float64 values
Times(f, g) == (f * g) \div Unit

\* what GetAnalytics appends to salaries: SalaryMin, SalaryMax or their mean
SalaryPool ==
    {Float(60000), Float(80000), Float(100000), Float(120000),
     Float(60000 + 80001) \div 2}

Samples == UNION {[1..n -> SalaryPool] : n \in 0..MaxSample}

RECURSIVE InsertFloat(_, _)
InsertFloat(x, sorted) ==
    IF sorted = <<>> THEN <<x>>
    ELSE IF x <= Head(sorted) THEN <<x>> \o sorted
         ELSE <<Head(sorted)>> \o InsertFloat(x, Tail(sorted))

RECURSIVE SortFloat64s(_)
\* sort.Float64s(salaries)
SortFloat64s(xs) ==
    IF xs = <<>> THEN <<>> ELSE InsertFloat(Head(xs), SortFloat64s(Tail(xs)))

\* a percentile that takes the value at the floor rank
percentileFloorRank(sortedData, p) ==
    LET n == Len(sortedData)
        index == Times(Float(p) \div 100, Float(n - 1))
    IN  IF n = 0 THEN 0 ELSE sortedData[Trunc(index) + 1]

\* percentile(sortedData, p), for the p whose p/100.0 is exact in a float64
percentile(sortedData, p) ==
    LET n == Len(sortedData)
        index == Times(Float(p) \div 100, Float(n - 1))
        lower == Trunc(index)
        upper == lower + 1
        weight == index - Float(lower)
    IN  IF n = 0 THEN 0
        ELSE IF n = 1 THEN sortedData[1]
        ELSE IF upper >= n THEN sortedData[n]
        ELSE Times(sortedData[lower + 1], Float(1) - weight)
                 + Times(sortedData[upper + 1], weight)

\* the zero value of models.SalaryRange
ZeroSalaryRange == [Min |-> 0, Max |-> 0, Median |-> 0, P25 |-> 0, P75 |-> 0]

\* if len(salaries) > 0 { sort; analytics.SalaryRange = ... }
SalaryRangeOf(sal) ==
    IF Len(sal) > 0
    THEN LET sorted == SortFloat64s(sal)
         IN  [Min |-> Trunc(sorted[1]),
              Max |-> Trunc(sorted[Len(sorted)]),
              Median |-> percentile(sorted, 50),
              P25 |-> percentile(sorted, 25),
              P75 |-> percentile(sorted, 75)]
    ELSE ZeroSalaryRange

\* the salary statistics part of GetAnalytics
SalaryStatistics ==
    /\ salaryRange = <<>>
    /\ salaryRange' = SalaryRangeOf(salaries)
    /\ UNCHANGED <<salaries, limVars, runVars, regVars, storeVars, mergeVars>>
    /\ UNCHANGED <<rwVars, raceVars>>

InitStatSpec ==
    /\ InitLimiter /\ rate = 4
    /\ InitRun /\ InitReg /\ InitStore /\ InitMerge
    /\ salaries \in Samples
    /\ salaryRange = <<>>
    /\ InitRW /\ InitRace

NextStat == SalaryStatistics

SpecStat == InitStatSpec /\ [][NextStat]_vars

-----------------------------------------------------------------------------
(* The locking specification: goroutines that call Store, Clear and Search   *)
(* on one storage at the same time, step by step under s.mu                  *)

MaxOps == 3   \* storage calls started in one behaviour

\* the batches the concurrent Store calls are given
WriteBatches == {<<JobA, JobB>>, <<JobA2, JobC>>, <<JobB>>}

rwFrame == <<limVars, runVars, regVars, mergeVars, statVars, raceVars,
             firstSeen, lastBatch, searches, cleared>>

\* a goroutine calls Store(batch), Clear() or Search(filters)
StorageCall(g, op, batch) ==
    /\ task[g].pc = "idle"
    /\ calls < MaxOps
    /\ calls' = calls + 1
    /\ task' = [task EXCEPT ![g] =
                   [op |-> op,
                    pc |-> IF op = "Search" THEN "rlock" ELSE "lock",
                    batch |-> batch, urls |-> {}, seen |-> <<>>]]
    /\ UNCHANGED <<mu, jobs, commits, rwFrame>>

\* s.mu.Lock(), first half: the writer shuts out the other writers and the
\* readers that arrive from now on
LockAnnounce(g) ==
    /\ task[g].pc = "lock"
    /\ mu.writer = 0
    /\ mu' = [mu EXCEPT !.writer = g]
    /\ task' = [task EXCEPT ![g].pc = "drain"]
    /\ UNCHANGED <<jobs, commits, calls, rwFrame>>

\* s.mu.Lock(), second half: the readers inside have left; Store then builds
\* existingURLs from s.jobs
LockAcquire(g) ==
    /\ task[g].pc = "drain"
    /\ mu.readers = {}
    /\ task' = [task EXCEPT ![g].pc = IF task[g].op = "Store" THEN "loop"
                                      ELSE "clear",
                            ![g].urls = ExistingURLs(jobs)]
    /\ UNCHANGED <<mu, jobs, commits, calls, rwFrame>>

\* one iteration of the loop of Store over its batch
StoreStep(g) ==
    /\ task[g].pc = "loop"
    /\ task[g].batch # <<>>
    /\ LET job == Head(task[g].batch)
       IN  /\ jobs' = IF job.URL \notin task[g].urls THEN Append(jobs, job)
                      ELSE jobs
           /\ task' = [task EXCEPT ![g].batch = Tail(task[g].batch),
                                   ![g].urls = task[g].urls \cup {job.URL}]
    /\ UNCHANGED <<mu, commits, calls, rwFrame>>

\* return nil of Store: the deferred s.mu.Unlock()
StoreUnlock(g) ==
    /\ task[g].pc = "loop"
    /\ task[g].batch = <<>>
    /\ mu' = [mu EXCEPT !.writer = 0]
    /\ commits' = commits \cup {jobs}
    /\ task' = [task EXCEPT ![g].pc = "idle"]
    /\ UNCHANGED <<jobs, calls, rwFrame>>

\* s.jobs = make([]models.Job, 0); return nil of Clear with its Unlock
ClearRun(g) ==
    /\ task[g].pc = "clear"
    /\ jobs' = <<>>
    /\ mu' = [mu EXCEPT !.writer = 0]
    /\ commits' = commits \cup {<<>>}
    /\ task' = [task EXCEPT ![g].pc = "idle"]
    /\ UNCHANGED <<calls, rwFrame>>

\* an RLock that does not wait for the writer
SearchRLockAnyway(g) ==
    /\ task[g].pc = "rlock"
    /\ mu' = [mu EXCEPT !.readers = mu.readers \cup {g}]
    /\ task' = [task EXCEPT ![g].pc = "read"]
    /\ UNCHANGED <<jobs, commits, calls, rwFrame>>

\* s.mu.RLock(): waits while a writer holds the lock or has announced itself
SearchRLock(g) ==
    /\ task[g].pc = "rlock"
    /\ mu.writer = 0
    /\ mu' = [mu EXCEPT !.readers = mu.readers \cup {g}]
    /\ task' = [task EXCEPT ![g].pc = "read"]
    /\ UNCHANGED <<jobs, commits, calls, rwFrame>>

\* the loop of Search over s.jobs
SearchRead(g) ==
    /\ task[g].pc = "read"
    /\ task' = [task EXCEPT ![g].pc = "runlock", ![g].seen = <<jobs>>]
    /\ UNCHANGED <<mu, jobs, commits, calls, rwFrame>>

\* return of Search: the deferred s.mu.RUnlock()
SearchRUnlock(g) ==
    /\ task[g].pc = "runlock"
    /\ mu' = [mu EXCEPT !.readers = mu.readers \ {g}]
    /\ task' = [task EXCEPT ![g].pc = "idle"]
    /\ UNCHANGED <<jobs, commits, calls, rwFrame>>

NextRW ==
    \/ \E g \in Goroutines : \E b \in WriteBatches : StorageCall(g, "Store", b)
    \/ \E g \in Goroutines : StorageCall(g, "Clear", <<>>)
    \/ \E g \in Goroutines : StorageCall(g, "Search", <<>>)
    \/ \E g \in Goroutines : LockAnnounce(g)
    \/ \E g \in Goroutines : LockAcquire(g)
    \/ \E g \in Goroutines : StoreStep(g)
    \/ \E g \in Goroutines : StoreUnlock(g)
    \/ \E g \in Goroutines : ClearRun(g)
    \/ \E g \in Goroutines : SearchRLock(g)
    \/ \E g \in Goroutines : SearchRead(g)
    \/ \E g \in Goroutines : SearchRUnlock(g)

SpecRW == InitQuiet /\ [][NextRW]_vars

-----------------------------------------------------------------------------
(* The request specification: request goroutines that call the registry at   *)
(* the same time.  ScraperRegistry has no lock; an access to sr.configs that  *)
(* overlaps a write to it is a data race, after which the runtime may end the *)
(* process ("concurrent map read and map write", "concurrent map writes") or  *)
(* let the access go on                                                       *)

MaxRequests == 3   \* registry calls started in one behaviour

\* the keys the concurrent calls are made with
RaceNames == {"remoteok", "custom"}

RaceOps == {"enable", "disable", "get", "list", "add"}

raceFrame == <<limVars, runVars, storeVars, mergeVars, statVars, rwVars,
               toggled, atStart, regRet, regOp, listed, listSnap>>

\* a request goroutine calls EnableScraper, DisableScraper, GetScraperConfig,
\* ListScrapers (and ranges over the map) or AddCustomScraper
RegistryCall(g, op, name) ==
    /\ ~crashed
    /\ handlers[g].pc = "idle"
    /\ Len(issued) < MaxRequests
    /\ issued' = Append(issued, [op |-> op, name |-> name])
    /\ handlers' = [handlers EXCEPT ![g] =
           [op |-> op, name |-> name,
            pc |-> CASE op = "add" -> "assign"
                     [] op = "list" -> "range"
                     [] OTHER -> "lookup",
            config |-> IF op = "add" THEN Config("Custom", FALSE)
                       ELSE NoRequest.config]]
    /\ UNCHANGED <<configs, writing, crashed, raced, raceFrame>>

\* the fatal error of the runtime that a racing access may end in
FatalError ==
    /\ crashed' = TRUE
    /\ raced' = TRUE
    /\ UNCHANGED <<configs, handlers, writing, issued, raceFrame>>

\* what a read of sr.configs[name] can give: the entry of the map, or, in a
\* race with an assignment to the same key, the entry that is being written
ReadOf(name) ==
    (IF name \in DOMAIN configs THEN {<<configs[name], TRUE>>}
     ELSE {<<NoRequest.config, FALSE>>})
    \cup {<<handlers[w].config, TRUE>> :
              w \in {x \in writing : handlers[x].name = name}}

\* config, exists := sr.configs[name] of EnableScraper, DisableScraper and
\* GetScraperConfig, with the return of the latter and of the not-found case
Lookup(g) ==
    /\ ~crashed
    /\ handlers[g].pc = "lookup"
    /\ \/ /\ writing # {}
          /\ FatalError
       \/ /\ \E r \in ReadOf(handlers[g].name) :
                 handlers' = [handlers EXCEPT
                     ![g].pc = IF r[2] /\ handlers[g].op # "get"
                               THEN "assign" ELSE "idle",
                     ![g].config = [r[1] EXCEPT !.Enabled =
                                       CASE handlers[g].op = "enable" -> TRUE
                                         [] handlers[g].op = "disable" -> FALSE
                                         [] OTHER -> r[1].Enabled]]
          /\ raced' = (raced \/ writing # {})
          /\ UNCHANGED <<configs, writing, crashed, issued, raceFrame>>

\* for _, config := range configs of the ListScrapers handler
RangeConfigs(g) ==
    /\ ~crashed
    /\ handlers[g].pc = "range"
    /\ \/ /\ writing # {}
          /\ FatalError
       \/ /\ handlers' = [handlers EXCEPT ![g].pc = "idle"]
          /\ raced' = (raced \/ writing # {})
          /\ UNCHANGED <<configs, writing, crashed, issued, raceFrame>>

\* sr.configs[name] = config: the assignment begins
AssignBegin(g) ==
    /\ ~crashed
    /\ handlers[g].pc = "assign"
    /\ \/ /\ writing # {}
          /\ FatalError
       \/ /\ handlers' = [handlers EXCEPT ![g].pc = "assigning"]
          /\ writing' = writing \cup {g}
          /\ raced' = (raced \/ writing # {})
          /\ UNCHANGED <<configs, crashed, issued, raceFrame>>

\* sr.configs[name] = config: the entry is in the map; return
AssignEnd(g) ==
    /\ ~crashed
    /\ handlers[g].pc = "assigning"
    /\ configs' = (handlers[g].name :> handlers[g].config) @@ configs
    /\ writing' = writing \ {g}
    /\ handlers' = [handlers EXCEPT ![g].pc = "idle"]
    /\ UNCHANGED <<crashed, raced, issued, raceFrame>>

NextRace ==
    \/ \E g \in Goroutines : \E op \in RaceOps : \E n \in RaceNames :
           RegistryCall(g, op, n)
    \/ \E g \in Goroutines : Lookup(g)
    \/ \E g \in Goroutines : RangeConfigs(g)
    \/ \E g \in Goroutines : AssignBegin(g)
    \/ \E g \in Goroutines : AssignEnd(g)

SpecRace == InitQuiet /\ [][NextRace]_vars

-----------------------------------------------------------------------------
(* The registry specification: calls on one NewScraperRegistry()             *)

\* a scraper instance: its Name(), whether its type has Authenticate and
\* IsAuthenticated (AuthenticatedScraper), and its authenticated field
Scraper(name, gated) ==
    [Name |-> name, Gated |-> gated, authenticated |-> FALSE]

\* the keys CreateScraper's switch has a case for
Implemented == {"remoteok", "weworkremotely", "linkedin", "jobstreet"}

\* NewRemoteOKScraper, NewWeWorkRemotelyScraper, NewLinkedInScraper,
\* NewJobStreetScraper
NewScraper(name) ==
    CASE name = "remoteok"       -> Scraper("RemoteOK", FALSE)
      [] name = "weworkremotely" -> Scraper("WeWorkRemotely", FALSE)
      [] name = "linkedin"       -> Scraper("LinkedIn", TRUE)
      [] OTHER                   -> Scraper("JobStreet", TRUE)

\* CreateScraper(name): the scraper, or the error
CreateScraper(name) ==
    IF name \notin DOMAIN configs
    THEN [scraper |-> Scraper("", FALSE), err |-> "notfound"]
    ELSE IF ~configs[name].Enabled
         THEN [scraper |-> Scraper("", FALSE), err |-> "disabled"]
         ELSE IF name \in Implemented
              THEN [scraper |-> NewScraper(name), err |-> "nil"]
              ELSE [scraper |-> Scraper("", FALSE), err |-> "noimpl"]

RECURSIVE IterationOrders(_)
\* the orders in which `for name, config := range sr.configs` can visit the
\* keys: Go leaves the iteration order of a map unspecified
IterationOrders(keys) ==
    IF keys = {} THEN {<<>>}
    ELSE UNION {{<<k>> \o o : o \in IterationOrders(keys \ {k})} : k \in keys}

RECURSIVE EnabledLoopAbort(_, _)
\* a loop that gives up, returning nothing, at the first scraper it cannot
\* create
EnabledLoopAbort(order, scrapers) ==
    IF order = <<>> THEN scrapers
    ELSE IF configs[Head(order)].Enabled
         THEN IF CreateScraper(Head(order)).err = "nil"
              THEN EnabledLoopAbort(Tail(order),
                       Append(scrapers, CreateScraper(Head(order)).scraper))
              ELSE <<>>
         ELSE EnabledLoopAbort(Tail(order), scrapers)

RECURSIVE EnabledLoop(_, _)
\* if config.Enabled { if scraper, err := sr.CreateScraper(name); err == nil {
\*     scrapers = append(scrapers, scraper) } }
EnabledLoop(order, scrapers) ==
    IF order = <<>> THEN scrapers
    ELSE IF /\ configs[Head(order)].Enabled
            /\ CreateScraper(Head(order)).err = "nil"
         THEN EnabledLoop(Tail(order),
                  Append(scrapers, CreateScraper(Head(order)).scraper))
         ELSE EnabledLoop(Tail(order), scrapers)

\* the names the calls on the registry carry
RegistryNames == {"remoteok", "linkedin", "nosuch"}

\* the entry AddCustomScraper is called with
CustomNames == {"custom"}

regFrame == <<limVars, runVars, storeVars, mergeVars, sideVars>>

LoggedEnable(name) ==
    /\ SetEnabled(name, TRUE)
    /\ regOp' = RegCall("enable", name, <<>>)
    /\ UNCHANGED <<atStart, listed, listSnap, regFrame>>

LoggedDisable(name) ==
    /\ SetEnabled(name, FALSE)
    /\ regOp' = RegCall("disable", name, <<>>)
    /\ UNCHANGED <<atStart, listed, listSnap, regFrame>>

\* GetScraperConfig(name)
GetScraperConfig(name) ==
    /\ IF name \notin DOMAIN configs
       THEN /\ regRet' = "notfound"
            /\ regOp' = RegCall("get", name, Config("", FALSE))
       ELSE /\ regRet' = "nil"
            /\ regOp' = RegCall("get", name, configs[name])
    /\ UNCHANGED <<configs, toggled, atStart, listed, listSnap, regFrame>>

\* GetEnabledScrapers()
GetEnabledScrapers ==
    /\ \E order \in IterationOrders(DOMAIN configs) :
           regOp' = RegCall("active", "", EnabledLoop(order, <<>>))
    /\ regRet' = "nil"
    /\ UNCHANGED <<configs, toggled, atStart, listed, listSnap, regFrame>>

\* the map a caller of ListScrapers holds: `return sr.configs` hands out the
\* registry's own map, so what the caller sees in it is sr.configs
ListedMap == configs

\* ListScrapers()
ListScrapers ==
    /\ listed' = TRUE
    /\ listSnap' = configs
    /\ regOp' = RegCall("list", "", <<>>)
    /\ regRet' = "nil"
    /\ UNCHANGED <<configs, toggled, atStart, regFrame>>

\* AddCustomScraper(name, config)
AddCustomScraper(name, config) ==
    /\ configs' = (name :> config) @@ configs
    /\ regOp' = RegCall("add", name, <<>>)
    /\ regRet' = "nil"
    /\ UNCHANGED <<toggled, atStart, listed, listSnap, regFrame>>

\* the map without the key k
Without(m, k) == [x \in DOMAIN m \ {k} |-> m[x]]

\* delete(m, k) by the caller on the map m it got from ListScrapers: the map
\* is sr.configs, so the entry leaves the registry
CallerDelete(k) ==
    /\ listed
    /\ k \in DOMAIN ListedMap
    /\ configs' = Without(configs, k)
    /\ listSnap' = Without(listSnap, k)
    /\ regOp' = RegCall("mapdelete", k, <<>>)
    /\ UNCHANGED <<toggled, atStart, regRet, listed, regFrame>>

NextRegistry ==
    \/ \E n \in RegistryNames : LoggedEnable(n)
    \/ \E n \in RegistryNames : LoggedDisable(n)
    \/ \E n \in RegistryNames : GetScraperConfig(n)
    \/ GetEnabledScrapers
    \/ ListScrapers
    \/ \E n \in CustomNames : AddCustomScraper(n, Config("Custom", TRUE))
    \/ CallerDelete("remoteok")

SpecRegistry == InitQuiet /\ [][NextRegistry]_vars

-----------------------------------------------------------------------------
(* Properties of the orchestration (checked under Spec)                      *)

Returned == runState = "returned"

\* the records of `js` all occur in `all`
AllIn(js, all) == \A k \in DOMAIN js : \E m \in DOMAIN all : all[m] = js[k]

\* C1: when ScrapeAll has returned, every scraper was invoked although
\* another one failed, each outcome holds what its own fetch returned (the
\* failing one its error), and GetAllJobs of the outcomes contains every
\* record of every scraper that did not fail.
C1_FailureIsolated ==
    Returned =>
        \A i \in Workers :
            /\ invoked[i]
            /\ results[i].Jobs = fetched[i].Jobs
            /\ results[i].Error = fetched[i].Error
            /\ results[i].Error # "unset"
            /\ fetched[i].Error = "nil" =>
                   AllIn(fetched[i].Jobs, GetAllJobs(results))

\* one of the three scrapers failed, the other two delivered their records
C1_Witness ==
    /\ Returned
    /\ results[2].Error = "auth"
    /\ results[1] = [Jobs |-> <<JobA, JobB>>, Source |-> "RemoteOK", Error |-> "nil"]
    /\ results[3] = [Jobs |-> <<JobC>>, Source |-> "MockJobSite", Error |-> "nil"]
    /\ GetAllJobs(results) = <<JobA, JobB, JobC>>

\* C2 (as claimed): when ScrapeAll has returned, every scraper whose fetch
\* had not returned when the deadline fired has a timeout failure as outcome.
C2_DeadlineStopsWaiting ==
    Returned => \A i \in Workers : late[i] => results[i].Error = "ctx"

\* C3 (as claimed): a worker whose Wait returned the ctx error never calls
\* Scrape, and its outcome is a cancellation failure.
C3_CancelledNotRun ==
    \A i \in Workers :
        waitRet[i] = "ctx" =>
            /\ ~invoked[i]
            /\ Returned => results[i].Error = "ctx"

\* C7: ScrapeAll returns one outcome per scraper, the i-th one carrying the
\* name of the i-th scraper and what that scraper's fetch returned (its
\* records, or its failure with no records), whatever the completion order.
C7_OneOutcomePerAgent ==
    Returned =>
        /\ Len(results) = Len(Scrapers)
        /\ \A i \in Workers :
               /\ results[i].Source = Scrapers[i]
               /\ Outcome(results[i].Jobs, results[i].Error) = fetched[i]
               /\ results[i].Error = "nil" \/ results[i].Jobs = <<>>

\* MockJobSite (launched third) completed before the deadline, RemoteOK
\* (launched first) after it
C7_Witness ==
    /\ Returned
    /\ late[1] /\ ~late[3]
    /\ results[1].Source = "RemoteOK" /\ results[1].Error = "ctx"
    /\ results[3].Source = "MockJobSite" /\ results[3].Jobs = <<JobC>>

\* C9 (as claimed): a scraper whose registry entry was disabled by a
\* successful DisableScraper before the run started is not invoked by the run,
\* and one enabled by a successful EnableScraper is invoked.
C9_ToggleVisible ==
    \A i \in Workers : \A k \in DOMAIN configs :
        configs[k].Name = Scrapers[i] =>
            /\ atStart[k] = "disabled" => ~invoked[i]
            /\ (atStart[k] = "enabled" /\ Returned) => invoked[i]

-----------------------------------------------------------------------------
(* Properties of the registry (checked under SpecRegistry)                   *)

\* the entries of the map m other than k are those of the map n
SameBut(m, n, k) ==
    /\ DOMAIN m = DOMAIN n
    /\ \A x \in DOMAIN m \ {k} : m[x] = n[x]

\* C12: EnableScraper, DisableScraper and GetScraperConfig called with a name
\* that is not registered return the not-found error and leave sr.configs as
\* it was; called with a registered name, EnableScraper and DisableScraper
\* return nil and set the Enabled flag of that entry, and of no other, to
\* true and to false.
C12_UnknownNameNotFound ==
    /\ (regOp.op \in {"enable", "disable", "get"}
            /\ regOp.name \notin DOMAIN regOp.before) =>
           /\ regRet = "notfound"
           /\ configs = regOp.before
    /\ (regOp.op \in {"enable", "disable"}
            /\ regOp.name \in DOMAIN regOp.before) =>
           /\ regRet = "nil"
           /\ configs[regOp.name].Enabled = (regOp.op = "enable")
           /\ configs[regOp.name].Name = regOp.before[regOp.name].Name
           /\ SameBut(configs, regOp.before, regOp.name)

\* linkedin, disabled by default, has been enabled
C12_Witness ==
    /\ regOp.op = "enable" /\ regOp.name = "linkedin"
    /\ ~regOp.before["linkedin"].Enabled
    /\ configs["linkedin"].Enabled
    /\ regRet = "nil"

\* C13: GetEnabledScrapers returns no error and exactly one scraper for every
\* entry that is enabled and that CreateScraper has a case for: none for a
\* disabled entry, and an enabled entry that cannot be created (indeed) takes
\* no other scraper out of the result.
C13_OnlyEnabledAgents ==
    regOp.op = "active" =>
        LET agents == regOp.out
            able == {k \in DOMAIN regOp.before :
                        regOp.before[k].Enabled /\ k \in Implemented}
        IN  /\ regRet = "nil"
            /\ \A i \in DOMAIN agents : \E k \in able : agents[i] = NewScraper(k)
            /\ \A k \in able : \E i \in DOMAIN agents : agents[i] = NewScraper(k)
            /\ Len(agents) = Cardinality(able)

\* the default registry: indeed is enabled and cannot be created, linkedin
\* and jobstreet are disabled, the other two are returned
C13_Witness ==
    /\ regOp.op = "active"
    /\ regOp.before = DefaultConfigs
    /\ regOp.before["indeed"].Enabled
    /\ Range(regOp.out) = {NewScraper("remoteok"), NewScraper("weworkremotely")}

\* C14 (as claimed): every scraper GetEnabledScrapers returns that has
\* IsAuthenticated is authenticated.
C14_AuthCheckedBeforeInclusion ==
    regOp.op = "active" =>
        \A i \in DOMAIN regOp.out :
            regOp.out[i].Gated => regOp.out[i].authenticated

\* C15 (as claimed): the map a caller got from ListScrapers holds what it
\* held when it was returned, whatever is done to the registry afterwards,
\* and a delete on that map leaves sr.configs as it was.
C15_ListIsSnapshot ==
    /\ listed => ListedMap = listSnap
    /\ regOp.op = "mapdelete" => configs = regOp.before

-----------------------------------------------------------------------------
(* Properties of the limiter (checked under SpecLimiter)                     *)

\* C4 (as claimed): at every time T since the limiter was created (tick 0),
\* at most rate + floor(T / interval * rate) Wait calls have returned nil.
C4_RateBound == Granted <= rate + (now * rate) \div Interval

\* C10: on a fresh limiter the first `rate` calls succeed without waiting, the
\* next one, made within the first interval, finds the bucket empty, and a
\* call that finds the bucket empty does not succeed before interval/rate
\* has passed.
C10_EmptyBucketWaits ==
    \A k \in DOMAIN log :
        /\ k <= rate =>
               ~log[k].empty /\ log[k].ret = "nil" /\ log[k].slept = 0
        /\ (k = rate + 1 /\ now < Interval) => log[k].empty
        /\ (log[k].empty /\ log[k].ret = "nil") =>
               log[k].slept * rate >= Interval

\* rate 2: the first two calls succeed at once, the third after half an
\* interval
C10_Witness ==
    /\ rate = 2
    /\ Len(log) >= 3
    /\ ~log[1].empty /\ ~log[2].empty
    /\ log[3] = [found |-> 0, empty |-> TRUE, ret |-> "nil",
                 slept |-> Interval \div 2]

\* C11: a Wait call that sleeps on the empty bucket while its ctx is done and
\* its timer has not fired yet returns the ctx error, before the wait time
\* interval/rate is over, and leaves rl.tokens as the call found it.
C11_CancelConsumesNothing ==
    [][\A c \in Workers :
          (/\ pc[c] = "sleeping" /\ pc'[c] # "sleeping"
           /\ CtxDone(c) /\ now < wakeAt[c])
          => /\ waitRet'[c] = "ctx"
             /\ log'[Len(log)].ret = "ctx"
             /\ log'[Len(log)].slept < WaitTime
             /\ tokens' = log[Len(log)].found]_vars

\* rate 1: the second call sleeps from tick 0 on, its ctx is done in the
\* middle of the interval, and it returns the ctx error there
C11_Witness ==
    /\ rate = 1
    /\ Len(log) = 2
    /\ log[2] = [found |-> 0, empty |-> TRUE, ret |-> "ctx",
                 slept |-> Interval \div 2]
    /\ tokens = 0

\* C16 (as claimed): NewRateLimiter does not return a limiter of rate 0, so
\* that no Wait call is ever made on one and none panics.
C16_ZeroRateRejected ==
    (\E c \in Workers : pc[c] # "idle") => (rate > 0 /\ ~Crashed)

-----------------------------------------------------------------------------
(* Properties of GetAllJobs (checked under SpecMerge)                        *)

RECURSIVE OkLenBefore(_, _)
\* the number of records of the successful results before position i
OkLenBefore(res, i) ==
    IF i <= 1 THEN 0
    ELSE OkLenBefore(res, i - 1) +
         (IF res[i - 1].Error = "nil" THEN Len(res[i - 1].Jobs) ELSE 0)

\* C8: GetAllJobs(results) is the concatenation, in the order of the slice,
\* of the records of the results without error: it is as long as those
\* results together, the records of the i-th result stand, in their order,
\* right after those of the successful results before it; nothing of a failed
\* result and no deduplication.
C8_MergeIsConcatenation ==
    merged =>
        /\ Len(mergeOut) = OkLenBefore(mergeIn, Len(mergeIn) + 1)
        /\ \A i \in DOMAIN mergeIn :
               mergeIn[i].Error = "nil" =>
                   \A k \in DOMAIN mergeIn[i].Jobs :
                       mergeOut[OkLenBefore(mergeIn, i) + k] = mergeIn[i].Jobs[k]

\* a failed result with a record between two successes that share a URL
C8_Witness ==
    /\ merged
    /\ mergeIn = << Result(<<JobA, JobB>>, "RemoteOK", "nil"),
                    Result(<<JobC>>, "JobStreet", "net"),
                    Result(<<JobA2>>, "MockJobSite", "nil") >>
    /\ mergeOut = <<JobA, JobB, JobA2>>

-----------------------------------------------------------------------------
(* Properties of the storage (checked under SpecStore and SpecSearch)        *)

\* C5: after any sequence of Store and Clear calls no two stored jobs have
\* the same URL, and the job kept under a URL is the first one stored with it
\* since the last Clear: a later job with that URL changes nothing.
C5_UniqueURLFirstWins ==
    /\ \A a, b \in DOMAIN jobs : jobs[a].URL = jobs[b].URL => a = b
    /\ ExistingURLs(jobs) = DOMAIN firstSeen
    /\ \A i \in DOMAIN jobs : jobs[i] = firstSeen[jobs[i].URL]

\* a batch with the URL u1 twice, stored onto a job that already held u1
C5_Witness ==
    /\ lastBatch = <<JobA, JobA2>>
    /\ jobs = <<JobA2, JobB>>

\* C6 (as claimed): two Search calls with the same criteria and no Store or
\* Clear between them return the same response.
C6_SearchRepeatable ==
    \A a, b \in DOMAIN searches :
        searches[a].filters = searches[b].filters =>
            searches[a].resp = searches[b].resp

-----------------------------------------------------------------------------
(* Properties of Search (checked under SpecQuery)                            *)

Min(a, b) == IF a < b THEN a ELSE b

\* the stored jobs that pass the criteria f
Matching(f) == {jobs[i] : i \in {k \in DOMAIN jobs : matchesFilters(jobs[k], f)}}

\* C17 (as claimed): for every offset >= 0 and limit >= 0 Search returns,
\* with total the number of the filtered jobs and as page the jobs of the
\* filtered, sorted list from position min(offset, total) up to position
\* offset + limit (capped at total), or up to the end when limit = 0: an
\* empty page when the offset is beyond total.
C17_PageIsWindow ==
    \A n \in DOMAIN searches :
        LET f == searches[n].filters
            resp == searches[n].resp
            sorted == Filtered(f)
            total == Len(sorted)
            from == Min(f.Offset, total)
            to == IF f.Limit = 0 THEN total ELSE Min(f.Offset + f.Limit, total)
        IN  (f.Offset >= 0 /\ f.Limit >= 0) =>
                /\ ~searches[n].panicked
                /\ resp.Total = total
                /\ Len(resp.Jobs) = to - from
                /\ \A i \in DOMAIN resp.Jobs : resp.Jobs[i] = sorted[from + i]

\* C18 (as claimed): Search called with a negative offset does not fail and
\* returns the jobs, the total and the job count it returns for offset 0.
C18_NegativeOffsetClamped ==
    \A n \in DOMAIN searches :
        LET f == searches[n].filters
            resp == searches[n].resp
            zero == [f EXCEPT !.Offset = 0]
        IN  f.Offset < 0 =>
                /\ ~searches[n].panicked
                /\ resp.Jobs = Page(Filtered(zero), zero)
                /\ resp.Total = Len(Filtered(zero))

\* the number of times the skill sk stands in the stored jobs that pass f
SkillUses(f, sk) ==
    Cardinality({p \in (DOMAIN jobs) \X (1..Cardinality(JobPool)) :
                    /\ matchesFilters(jobs[p[1]], f)
                    /\ p[2] \in DOMAIN jobs[p[1]].Skills
                    /\ jobs[p[1]].Skills[p[2]] = sk})

\* C19: a Search that returns gives back stored jobs that pass the criteria,
\* each at most once and all of them when nothing is cut off, newest first;
\* total is the number of stored jobs that pass, whatever the page is; the
\* analytics count all of these jobs and their skills, not the page; and the
\* criteria come back as they were given.
C19_SearchResponse ==
    \A n \in DOMAIN searches :
        LET f == searches[n].filters
            resp == searches[n].resp
        IN  ~searches[n].panicked =>
                /\ Range(resp.Jobs) \subseteq Matching(f)
                /\ Cardinality(Range(resp.Jobs)) = Len(resp.Jobs)
                /\ (f.Limit = 0 /\ f.Offset = 0) => Range(resp.Jobs) = Matching(f)
                /\ \A a, b \in DOMAIN resp.Jobs :
                       a < b => resp.Jobs[a].PostedDate >= resp.Jobs[b].PostedDate
                /\ resp.Total = Cardinality(Matching(f))
                /\ resp.Analytics.TotalJobs = Cardinality(Matching(f))
                /\ \A k \in DOMAIN resp.Analytics.TopSkills :
                       resp.Analytics.TopSkills[k].Count =
                           SkillUses(f, resp.Analytics.TopSkills[k].Skill)
                /\ resp.Filters = f

\* three jobs stored oldest first, two of them with the skill; the first page
\* of one job holds the newer one, total and analytics count both
C19_Witness ==
    /\ jobs = <<JobA2, JobC, JobB>>
    /\ Len(searches) = 1
    /\ searches[1].filters = Filters(<<"go">>, 1, 0)
    /\ searches[1].resp.Jobs = <<JobB>>
    /\ searches[1].resp.Total = 2
    /\ searches[1].resp.Analytics.TotalJobs = 2

\* the characters of a and b are the same but for their case
SameFold(a, b) ==
    /\ Len(a) = Len(b)
    /\ \A i \in DOMAIN a : LowerChar(a[i]) = LowerChar(b[i])

\* the job has the skill w, whatever the case
HasSkill(job, w) ==
    \E i \in DOMAIN job.Skills : SameFold(Chars(job.Skills[i]), Chars(w))

\* the word kw stands somewhere in the text, whatever the case
OccursIn(text, kw) ==
    \E at \in 0..(Len(text) - Len(kw)) :
        \A i \in DOMAIN kw : LowerChar(text[at + i]) = LowerChar(kw[i])

\* the keyword stands in the job's title, description or one of its skills
KeywordInField(job, w) ==
    \/ OccursIn(Chars(job.Title), Chars(w))
    \/ OccursIn(Chars(job.Description), Chars(w))
    \/ \E i \in DOMAIN job.Skills : OccursIn(Chars(job.Skills[i]), Chars(w))

\* C20: of the stored jobs, one passes criteria that hold skills alone
\* exactly if it has every requested skill, whatever the case of the letters,
\* and one in whose title, description or skills a keyword of the criteria
\* stands, whatever the case, passes criteria that hold keywords alone; the
\* total of a Search with these criteria counts the jobs accordingly.
C20_SkillsAllKeywordsAny ==
    \A n \in DOMAIN searches :
        LET f == searches[n].filters
            resp == searches[n].resp
            skilled == {j \in Range(jobs) :
                           \A r \in DOMAIN f.Skills : HasSkill(j, f.Skills[r])}
            worded == {j \in Range(jobs) :
                          \E k \in DOMAIN f.Keywords :
                              KeywordInField(j, f.Keywords[k])}
        IN  (~searches[n].panicked /\ f.MinSalary = 0 /\ f.MaxSalary = 0) =>
                /\ f.Keywords = <<>> =>
                       /\ Matching(f) = skilled
                       /\ resp.Total = Cardinality(skilled)
                       /\ Range(resp.Jobs) \subseteq skilled
                /\ (f.Skills = <<>> /\ f.Keywords # <<>>) =>
                       /\ worded \subseteq Matching(f)
                       /\ worded \subseteq Range(resp.Jobs)

\* the skills Docker and GO are asked of a job that has only Go and of one
\* that has both
C20_Witness ==
    /\ jobs = <<JobA2, JobB>>
    /\ Len(searches) = 1
    /\ searches[1].filters = Filters(<<"Docker", "GO">>, 0, 1)
    /\ searches[1].resp.Total = 1

\* C21: of the stored jobs, one whose SalaryMin is unset (0) or below a
\* requested MinSalary does not pass, nor does one whose SalaryMax is unset
\* or above a requested MaxSalary; a job with both salary bounds in the
\* requested range passes criteria that hold salary bounds alone, and a job
\* without salary data passes them only if no bound is requested.  The jobs a
\* Search returns and its total follow this.
C21_MissingSalaryFails ==
    \A n \in DOMAIN searches :
        LET f == searches[n].filters
            resp == searches[n].resp
            low(j) == f.MinSalary > 0 /\ (j.SalaryMin = 0 \/ j.SalaryMin < f.MinSalary)
            high(j) == f.MaxSalary > 0 /\ (j.SalaryMax = 0 \/ j.SalaryMax > f.MaxSalary)
            inRange == {j \in Range(jobs) : ~low(j) /\ ~high(j)}
        IN  ~searches[n].panicked =>
                /\ \A j \in Range(jobs) :
                       (low(j) \/ high(j)) => j \notin Matching(f)
                /\ \A j \in Range(resp.Jobs) : ~low(j) /\ ~high(j)
                /\ (f.Skills = <<>> /\ f.Keywords = <<>>) =>
                       /\ Matching(f) = inRange
                       /\ resp.Total = Cardinality(inRange)
                /\ \A j \in Range(jobs) :
                       (j.SalaryMin = 0 /\ j.SalaryMax = 0 /\ j \in Matching(f)) =>
                           (f.MinSalary = 0 /\ f.MaxSalary = 0)

\* an upper bound of 110 is asked of a job without salary data, of one with
\* a lower bound alone and of one paid 60 to 100: only the last one passes
C21_Witness ==
    /\ Range(jobs) = {JobA, JobB, JobC}
    /\ Len(searches) = 1
    /\ searches[1].filters = SalaryFilters(0, 110)
    /\ searches[1].resp.Jobs = <<JobA>>
    /\ searches[1].resp.Total = 1

RECURSIVE FirstSeen(_, _)
\* the distinct words of a sequence, in the order of their first occurrence
FirstSeen(ws, seen) ==
    IF ws = <<>> THEN seen
    ELSE IF Head(ws) \in Range(seen) THEN FirstSeen(Tail(ws), seen)
         ELSE FirstSeen(Tail(ws), Append(seen, Head(ws)))

RECURSIVE AllSkills(_)
\* the skills of a list of jobs, job after job
AllSkills(js) ==
    IF js = <<>> THEN <<>> ELSE Head(js).Skills \o AllSkills(Tail(js))

RECURSIVE StableRank(_, _)
\* the keys by descending count, equal counts in the order of `keys`
StableRank(keys, counts) ==
    IF keys = <<>> THEN <<>>
    ELSE LET best == CHOOSE i \in DOMAIN keys :
                         /\ \A k \in DOMAIN keys : counts[keys[i]] >= counts[keys[k]]
                         /\ \A k \in 1..(i - 1) : counts[keys[k]] < counts[keys[i]]
         IN  <<keys[best]>> \o
             StableRank(SelectSeq(keys, LAMBDA x : x # keys[best]), counts)

\* C22 (as claimed): the TopSkills and TopCompanies of a Search response list
\* the at most 10 most frequent skills and companies of the filtered jobs by
\* descending count, those with equal counts in the order in which they are
\* first seen in the filtered jobs.
C22_TiesByFirstSeen ==
    \A n \in DOMAIN searches :
        LET js == Filtered(searches[n].filters)
            top == searches[n].resp.Analytics
            skills == Take(StableRank(FirstSeen(AllSkills(js), <<>>),
                                      SkillCounts(js)), TopLimit)
            companies ==
                Take(StableRank(FirstSeen([i \in DOMAIN js |-> js[i].Company], <<>>),
                                CompanyCounts(js)), TopLimit)
        IN  (~searches[n].panicked /\ js # <<>>) =>
                /\ top.TopSkills =
                       [i \in DOMAIN skills |->
                           [Skill |-> skills[i], Count |-> SkillCounts(js)[skills[i]]]]
                /\ top.TopCompanies =
                       [i \in DOMAIN companies |->
                           [Company |-> companies[i],
                            Count |-> CompanyCounts(js)[companies[i]]]]

\* C23: Clear empties the collection and with it the URL index: after
\* Clear a Search with empty criteria counts 0 jobs, and a Store that follows
\* inserts a job whose URL was stored before the Clear.
C23_ClearForgetsURLs ==
    /\ (lastBatch = <<>>) =>
           /\ jobs = <<>>
           /\ Len(Filtered(Filters(<<>>, 0, 0))) = 0
    /\ \A u \in (DOMAIN firstSeen) \cap cleared : firstSeen[u] \in Range(jobs)

\* u1 was stored, Clear was called and a job under u1 was stored again
C23_Witness ==
    /\ cleared = {"u1"}
    /\ lastBatch = <<JobA2>>
    /\ jobs = <<JobA2>>

\* the value at the fractional rank p/100 * (n - 1) of an ascending sample,
\* by linear interpolation between the floor and the ceiling rank, times 100
Interpolated100(sample, p) ==
    LET x == p * (Len(sample) - 1)
        floor == x \div 100
        ceil == IF x % 100 = 0 THEN floor ELSE floor + 1
    IN  100 * sample[floor + 1]
            + (sample[ceil + 1] - sample[floor + 1]) * (x - 100 * floor)

\* C24: the percentiles of the salary range are the linear interpolation at
\* index p/100 * (n - 1) of the ascending sample between the values at the
\* floor and the ceiling rank; a sample of one value gives that value, an
\* empty sample a salary range of zeros; for 60000, 80000, 100000, 120000
\* the median is 90000 and the 25th percentile 75000.
C24_PercentileInterpolates ==
    (salaryRange # <<>>) =>
        LET sample == SortFloat64s(salaries)
            n == Len(sample)
        IN  /\ (n = 0) => salaryRange = ZeroSalaryRange
            /\ (n = 1) => /\ salaryRange.Median = sample[1]
                          /\ salaryRange.P25 = sample[1]
                          /\ salaryRange.P75 = sample[1]
            /\ (n >= 2) => /\ 100 * salaryRange.Median = Interpolated100(sample, 50)
                           /\ 100 * salaryRange.P25 = Interpolated100(sample, 25)
                           /\ 100 * salaryRange.P75 = Interpolated100(sample, 75)
            /\ (sample = <<Float(60000), Float(80000), Float(100000), Float(120000)>>)
                   => /\ salaryRange.Median = Float(90000)
                      /\ salaryRange.P25 = Float(75000)

\* the sample of the specification, collected in another order
C24_Witness ==
    /\ salaries = <<Float(100000), Float(60000), Float(120000), Float(80000)>>
    /\ salaryRange = [Min |-> 60000, Max |-> 120000, Median |-> Float(90000),
                      P25 |-> Float(75000), P75 |-> Float(105000)]

\* C25 (as claimed): a Wait call returns the cancellation promptly when its
\* own ctx is done, also while another caller waits for a token: no call is
\* still blocked at a time after its ctx was done while the caller that keeps
\* it out can itself neither be granted a token nor be cancelled yet.
C25_CancelNotBlockedByWaiter ==
    \A c \in Workers :
        ~ /\ pc[c] = "start"
          /\ now > ctxAt[c]
          /\ \E m \in Workers \ {c} :
                 /\ mutex = m
                 /\ pc[m] = "sleeping"
                 /\ now < wakeAt[m]
                 /\ now < ctxAt[m]

\* the goroutines inside Store or Clear, past s.mu.Lock()
Writing == {g \in Goroutines : task[g].pc \in {"loop", "clear"}}

\* the goroutines inside Search, past s.mu.RLock()
Reading == {g \in Goroutines : task[g].pc \in {"read", "runlock"}}

\* C26: Store, Clear and Search are atomic with respect to each other: what
\* a Search reads is s.jobs as it was before or after a whole write, never a
\* partly applied batch; no two writers are inside at the same time and no
\* reader is inside with a writer; and a Search waits for writers only: the
\* readers that are inside do not keep it from entering.
C26_StorageCallsAtomic ==
    /\ \A g \in Goroutines : task[g].seen # <<>> => task[g].seen[1] \in commits
    /\ Cardinality(Writing) <= 1
    /\ (Writing # {}) => Reading = {}
    /\ \A g \in Goroutines :
           (task[g].pc = "rlock" /\ mu.writer = 0) => ENABLED SearchRLock(g)

\* two searches are inside at once, after a Store of two jobs
C26_Witness ==
    /\ Cardinality(Reading) = 2
    /\ Len(jobs) = 2
    /\ \E g \in Reading : task[g].seen = <<jobs>>

\* C27 (as claimed): a Wait call that gets the lock refills the bucket to
\* min(rate, tokens + floor(elapsed * rate / interval)), elapsed being the
\* time since the previous refill, before it takes a token or finds the
\* bucket empty: a part of an interval yields its share of the rate, and when
\* the elapsed time yields no token to a bucket that is not full, it stays
\* counted for the next refill.
C27_RefillProportional ==
    [][\A c \in Workers :
           (pc[c] = "start" /\ pc'[c] # "start") =>
               LET share == ((now - lastTime) * rate) \div Interval
                   expected == Min(rate, tokens + share)
               IN  /\ tokens' = IF expected > 0 THEN expected - 1 ELSE 0
                   /\ (pc'[c] = "sleeping") = (expected = 0)
                   /\ (share = 0 /\ tokens < rate) => lastTime' = lastTime]_vars

\* C28: rl.tokens stays within 0 .. rl.rate in every state of a limiter
\* built with a rate of 1 or more, whatever Wait calls were granted at once,
\* granted after a wait, or cancelled.
C28_TokensWithinCapacity == 0 <= tokens /\ tokens <= rate

\* a call was granted at once, one was cancelled in its wait and one was
\* granted after its wait
C28_Witness ==
    /\ \E k \in DOMAIN log : ~log[k].empty /\ log[k].ret = "nil"
    /\ \E k \in DOMAIN log : log[k].empty /\ log[k].ret = "ctx"
    /\ \E k \in DOMAIN log : log[k].empty /\ log[k].ret = "nil"
    /\ mutex = 0
    /\ tokens = rate - 1

\* what a registry call makes of the map when it runs alone
Alone(call, cfg) ==
    CASE call.op = "add" -> (call.name :> Config("Custom", FALSE)) @@ cfg
      [] call.op \in {"enable", "disable"} /\ call.name \in DOMAIN cfg ->
             [cfg EXCEPT ![call.name].Enabled = (call.op = "enable")]
      [] OTHER -> cfg

RECURSIVE InSomeOrder(_, _)
\* the maps that the calls issued[i], i in left, make of cfg when they run
\* one after the other, in any order
InSomeOrder(cfg, left) ==
    IF left = {} THEN {cfg}
    ELSE UNION {InSomeOrder(Alone(issued[i], cfg), left \ {i}) : i \in left}

\* C29 (as claimed): the registry calls that run at the same time are atomic
\* with respect to each other: no call reads sr.configs while another one
\* writes it, the process is not ended by a fatal error, and when all calls
\* have returned sr.configs is what the same calls make of the initial map
\* in some sequential order.
C29_RegistryCallsAtomic ==
    /\ ~raced
    /\ ~crashed
    /\ (\A g \in Goroutines : handlers[g].pc = "idle") =>
           configs \in InSomeOrder(DefaultConfigs, DOMAIN issued)

\* C30: ScrapeAll ends whenever every s.Scrape call returns: every worker
\* of a running ScrapeAll gets past rateLimiter.Wait to its s.Scrape call, and
\* the run returns, with every slot of results written by the worker of that
\* index; no slot is written by another worker, and none after the join.
C30_RunTerminates ==
    /\ \A i \in Workers : (runState = "running") ~> invoked[i]
    /\ (runState = "running") ~>
           (Returned /\ \A i \in Workers : results[i].Source = Scrapers[i])
    /\ [](\A i \in Workers :
              /\ runState = "running" =>
                     results[i].Source = IF pc[i] = "done" THEN Scrapers[i] ELSE ""
              /\ Returned => pc[i] = "done" /\ results[i].Source = Scrapers[i])

\* the run has returned; one worker slept in Wait until its timer fired while
\* the others stood at the mutex
C30_Witness ==
    /\ Returned
    /\ rate = 1
    /\ \A i \in Workers : results[i].Source = Scrapers[i]
    /\ \E i \in Workers : wakeAt[i] > 0 /\ waitRet[i] = "nil" /\ now >= wakeAt[i]

====
